---- MODULE Spec2Model ----
(***************************************************************************)
(* State-machine model of the two ingestion scripts of the repository:     *)
(*   challenge-1/challenge.ts  downloadFile, extractTarGz, setupDatabase,  *)
(*                             processCSV, processDataDump                 *)
(*   challenge-2/challenge.ts  parseCSV, scrapeCompanyPage, writeToFile,   *)
(*                             processCompanyList                          *)
(* Every callback of the source (stream 'data'/'end'/'error' handlers,     *)
(* promise continuations, the settlement of a query) is one action.        *)
(***************************************************************************)
EXTENDS Integers, Sequences, FiniteSets, TLC

\* ------------------------------------------------------------------ bounds
\* rows.length === 100 in processCSV
BatchSize == 100
\* largest CSV loaded by processCSV when it is analysed on its own
MaxRows == 202
\* length of the partial tail of the CSVs loaded by processDataDump
MaxTail == 1
\* body chunks of the download
MaxChunks == 2
\* consecutive setupDatabase runs
MaxRuns == 2
\* data rows of inputs/companies.csv
MaxCompanies == 3
\* founder blocks and job blocks of a page handed to requestHandler
MaxFounders == 2
MaxJobs == 2

Loads == {"customers", "organizations"}
TableNames == {"customers", "organizations", "legacy"}
Absent == [exists |-> FALSE, cols |-> {}, rows |-> <<>>]

VARIABLES
  \* processCSV, one instance per table name
  csvLen,    \* number of data rows of the CSV file read by the call
  pos,       \* number of 'data' events delivered so far
  rows,      \* the rows array of the call (shared with the query builders)
  stream,    \* "idle" | "flowing" | "awaitTail" | "ended" | "errored"
  promise,   \* promise returned by processCSV: "none" | "pending" | "resolved" | "rejected"
  inserts,   \* every db(tableName).insert(rows) issued, in submission order
  \* the database
  tables,    \* table name -> [exists, cols, rows]
  handle,    \* knex handle: "none" | "open" | "destroyed"
  opened,    \* number of knex handles created by setupDatabase
  destroyed, \* number of db.destroy() calls
  setupPc,   \* setupDatabase: "idle" | "dropC" | "dropO" | "createC" | "createO" | "returned" | "failed"
  runs,      \* number of setupDatabase calls that have returned
  \* downloadFile
  dest,      \* tmp/dump.tar.gz on disk: "absent" | "valid" | "corrupt" | "partial"
  remote,    \* what the server would serve in full: "valid" | "corrupt"
  dlPromise, \* "none" | "pending" | "resolved" | "rejected"
  dlCause,   \* what the promise was rejected with: "none" | "status" | "transport" | "unlink" | "close"
  dlReq,     \* the request: "none" | "sent" | "responded" | "errored"
  dlResp,    \* the response: "none" | "bad" | "streaming" | "ended" | "aborted"
  dlFile,    \* the write stream: "none" | "opening" | "open" | "finished" | "closed"
  dlChunks,  \* body chunks piped into the write stream
  dlUnlinked, \* fs.unlink(destination) removed the file
  \* processDataDump
  pc,        \* position of processDataDump
  started,   \* the stages started so far, in order
  logs,      \* what was written to the console, in order
  \* processCompanyList (challenge-2)
  web,       \* URL -> the page the crawler hands to requestHandler for it
  inputCsv,  \* the data rows of inputs/companies.csv, in file order
  companies, \* the companies array filled by parseCSV
  cpc,       \* position of processCompanyList
  tasks,     \* one scrapeCompanyPage promise per company: "running" | "resolved" | "rejected" | "hung"
  values,    \* the result array Promise.all is filling
  settled,   \* the indices of the fetches that have settled, in settlement order
  outFile,   \* out/scraped.json: [state: "absent" | "stale" | "truncated" | "written", data]
  writeCalled, \* writeToFile has been called
  errLogged  \* what .catch(console.error) logged: "none" | "parse" | "fetch" | "write"

csvVars == <<csvLen, pos, rows, stream, promise, inserts>>
dbVars == <<tables, handle, opened, destroyed, setupPc, runs>>
dlVars == <<dest, remote, dlPromise, dlCause, dlReq, dlResp, dlFile, dlChunks, dlUnlinked>>
pipeVars == <<pc, started, logs>>
scrapeVars == <<web, inputCsv, companies, cpc, tasks, values, settled, outFile, writeCalled, errLogged>>
vars == <<csvLen, pos, rows, stream, promise, inserts,
          tables, handle, opened, destroyed, setupPc, runs,
          dest, remote, dlPromise, dlCause, dlReq, dlResp, dlFile, dlChunks, dlUnlinked,
          pc, started, logs,
          web, inputCsv, companies, cpc, tasks, values, settled, outFile, writeCalled, errLogged>>

\* an uncaught exception ends the process: no callback runs after it
Alive == pc /= "crashed"

\* ------------------------------------------------------------ processCSV
\* The object fast-csv emits for data row i of the file (identified by its line).
CsvRow(t, i) == i

\* The file read by a processCSV call, in file order.
CsvFile(t, n) == [i \in 1..n |-> CsvRow(t, i)]

\* if (rows.length === 100)
BatchFull(r) == Len(r) = BatchSize

\* a slip in the tail test: the 'end' handler inserts whatever is left, even nothing
HasTailAlways(r) == Len(r) >= 0

\* if (rows.length > 0) in the 'end' handler
HasTail(r) == Len(r) > 0

\* resolve() / reject() of a promise: only the first call has an effect
Resolve(p) == IF p = "pending" THEN "resolved" ELSE p
Reject(p) == IF p = "pending" THEN "rejected" ELSE p

\* db(tableName).insert(rows): the builder keeps the array it is given (arg is
\* its content when the call is made); knex compiles the statement from that
\* array only when the query runs, which fills payload.
NewInsert(t, r, isTail) ==
  [table |-> t, tail |-> isTail, arg |-> r, state |-> "issued", payload |-> <<>>]

\* .on("data", row => { rows.push(row); if (rows.length === 100) {...} })
OnData(t) ==
  /\ Alive
  /\ stream[t] = "flowing"
  /\ pos[t] < csvLen[t]
  /\ pos' = [pos EXCEPT ![t] = @ + 1]
  /\ LET r == Append(rows[t], CsvRow(t, pos[t] + 1)) IN
       IF BatchFull(r)
       THEN /\ inserts' = Append(inserts, NewInsert(t, r, FALSE))
            /\ rows' = [rows EXCEPT ![t] = <<>>]
       ELSE /\ rows' = [rows EXCEPT ![t] = r]
            /\ UNCHANGED inserts
  /\ UNCHANGED <<csvLen, stream, promise, dbVars, dlVars, pipeVars>>
  /\ UNCHANGED scrapeVars

\* .on("end", async () => { if (rows.length > 0) await insert; resolve() }), up
\* to the await (or to resolve() when there is no tail)
OnEnd(t) ==
  /\ Alive
  /\ stream[t] = "flowing"
  /\ pos[t] = csvLen[t]
  /\ IF HasTail(rows[t])
     THEN /\ inserts' = Append(inserts, NewInsert(t, rows[t], TRUE))
          /\ stream' = [stream EXCEPT ![t] = "awaitTail"]
          /\ UNCHANGED promise
     ELSE /\ stream' = [stream EXCEPT ![t] = "ended"]
          /\ promise' = [promise EXCEPT ![t] = Resolve(@)]
          /\ UNCHANGED inserts
  /\ UNCHANGED <<csvLen, pos, rows, dbVars, dlVars, pipeVars>>
  /\ UNCHANGED scrapeVars

\* a slip: the tail insert is not awaited, resolve() runs at once
AfterTailEarly(t) ==
  /\ Alive
  /\ stream[t] = "awaitTail"
  /\ stream' = [stream EXCEPT ![t] = "ended"]
  /\ promise' = [promise EXCEPT ![t] = Resolve(@)]
  /\ UNCHANGED <<csvLen, pos, rows, inserts, dbVars, dlVars, pipeVars>>
  /\ UNCHANGED scrapeVars

\* the continuation of the await in the 'end' handler: resolve()
AfterTail(t) ==
  /\ Alive
  /\ stream[t] = "awaitTail"
  /\ \E i \in 1..Len(inserts) :
       /\ inserts[i].table = t
       /\ inserts[i].tail
       /\ inserts[i].state \in {"accepted", "rejected"}
  /\ stream' = [stream EXCEPT ![t] = "ended"]
  /\ promise' = [promise EXCEPT ![t] = Resolve(@)]
  /\ UNCHANGED <<csvLen, pos, rows, inserts, dbVars, dlVars, pipeVars>>
  /\ UNCHANGED scrapeVars

\* .on("error", reject) on the parser stream
OnStreamError(t) ==
  /\ Alive
  /\ stream[t] = "flowing"
  /\ stream' = [stream EXCEPT ![t] = "errored"]
  /\ promise' = [promise EXCEPT ![t] = Reject(@)]
  /\ UNCHANGED <<csvLen, pos, rows, inserts, dbVars, dlVars, pipeVars>>
  /\ UNCHANGED scrapeVars

\* fs.createReadStream(filePath) emits 'error' (the file cannot be read): no
\* handler is attached to the file stream, so the exception is uncaught
OnReadError(t) ==
  /\ Alive
  /\ stream[t] = "flowing"
  /\ pos[t] = 0
  /\ rows[t] = <<>>
  /\ pc' = "crashed"
  /\ UNCHANGED <<csvVars, dbVars, dlVars, started, logs>>
  /\ UNCHANGED scrapeVars

\* What the query reads from the array it was given when it is compiled.
Compiled(i) == rows[inserts[i].table]

\* knex runs the builder: the statement is compiled from the array as it is now
Compile(i) ==
  /\ Alive
  /\ inserts[i].state = "issued"
  /\ handle = "open"
  /\ inserts' = [inserts EXCEPT ![i].state = "compiled", ![i].payload = Compiled(i)]
  /\ UNCHANGED <<csvLen, pos, rows, stream, promise, dbVars, dlVars, pipeVars>>
  /\ UNCHANGED scrapeVars

\* the store accepts the insert: the compiled rows are appended to the table
InsertAccepted(i) ==
  /\ Alive
  /\ inserts[i].state = "compiled"
  /\ tables[inserts[i].table].exists
  /\ inserts' = [inserts EXCEPT ![i].state = "accepted"]
  /\ tables' = [tables EXCEPT ![inserts[i].table].rows = @ \o inserts[i].payload]
  /\ UNCHANGED <<csvLen, pos, rows, stream, promise, handle, opened, destroyed, setupPc, runs, dlVars, pipeVars>>
  /\ UNCHANGED scrapeVars

\* the store rejects the insert: .catch(reject)
InsertRejected(i) ==
  /\ Alive
  /\ inserts[i].state \in {"issued", "compiled"}
  /\ inserts' = [inserts EXCEPT ![i].state = "rejected"]
  /\ promise' = [promise EXCEPT ![inserts[i].table] = Reject(@)]
  /\ UNCHANGED <<csvLen, pos, rows, stream, dbVars, dlVars, pipeVars>>
  /\ UNCHANGED scrapeVars

QueryCompile == \E i \in 1..Len(inserts) : Compile(i)
QueryAccepted == \E i \in 1..Len(inserts) : InsertAccepted(i)
QueryRejected == \E i \in 1..Len(inserts) : InsertRejected(i)

CustomerCols == {"id", "name", "email", "phone", "address", "organization_id"}
OrganizationCols == {"id", "name", "industry", "address"}

\* ---------------------------------------------------------- downloadFile
\* new Promise(...): file = fs.createWriteStream(destination); https.get(url, ...)
StartDownload ==
  /\ dlPromise' = "pending"
  /\ dlCause' = "none"
  /\ dlReq' = "sent"
  /\ dlResp' = "none"
  /\ dlFile' = "opening"
  /\ dlChunks' = 0
  /\ dlUnlinked' = FALSE
  /\ UNCHANGED <<dest, remote>>

\* the write stream opens the destination with flag 'w': created or truncated
FileOpen ==
  /\ Alive
  /\ dlFile = "opening"
  /\ dlFile' = "open"
  /\ dest' = "partial"
  /\ UNCHANGED <<remote, dlPromise, dlCause, dlReq, dlResp, dlChunks, dlUnlinked,
                 csvVars, dbVars, pipeVars>>
  /\ UNCHANGED scrapeVars

\* the write stream emits 'error' (open or write fails): file has no 'error'
\* listener, so the exception is uncaught
FileError ==
  /\ Alive
  /\ dlFile \in {"opening", "open"}
  /\ pc' = "crashed"
  /\ UNCHANGED <<csvVars, dbVars, dlVars, started, logs>>
  /\ UNCHANGED scrapeVars

\* the status codes a server may answer with
StatusCodes == {200, 301, 404}

\* response.statusCode !== 200 is the failure test
StatusOk(code) == code = 200

\* a slip: the non-200 branch also removes the destination before rejecting
OnResponseUnlinking(code) ==
  /\ Alive
  /\ dlReq = "sent"
  /\ dlReq' = "responded"
  /\ IF StatusOk(code)
     THEN /\ dlResp' = "streaming"
          /\ UNCHANGED <<dlPromise, dlCause, dest, dlUnlinked>>
     ELSE /\ dlResp' = "bad"
          /\ dlPromise' = Reject(dlPromise)
          /\ dlCause' = "status"
          /\ dest' = "absent"
          /\ dlUnlinked' = (dest /= "absent")
  /\ UNCHANGED <<remote, dlFile, dlChunks, csvVars, dbVars, pipeVars>>
  /\ UNCHANGED scrapeVars

\* the response callback: statusCode !== 200 -> reject and return; otherwise
\* response.pipe(file) and file.on("finish", ...)
OnResponse(code) ==
  /\ Alive
  /\ dlReq = "sent"
  /\ dlReq' = "responded"
  /\ IF StatusOk(code)
     THEN /\ dlResp' = "streaming"
          /\ UNCHANGED <<dlPromise, dlCause>>
     ELSE /\ dlResp' = "bad"
          /\ dlPromise' = Reject(dlPromise)
          /\ dlCause' = "status"
  /\ UNCHANGED <<dest, remote, dlFile, dlChunks, dlUnlinked, csvVars, dbVars, pipeVars>>
  /\ UNCHANGED scrapeVars

\* response.pipe(file): a body chunk is handed to the write stream
OnBodyChunk ==
  /\ Alive
  /\ dlResp = "streaming"
  /\ dlChunks < MaxChunks
  /\ dlChunks' = dlChunks + 1
  /\ UNCHANGED <<dest, remote, dlPromise, dlCause, dlReq, dlResp, dlFile, dlUnlinked,
                 csvVars, dbVars, pipeVars>>
  /\ UNCHANGED scrapeVars

\* the response ends: pipe calls file.end()
OnBodyEnd ==
  /\ Alive
  /\ dlResp = "streaming"
  /\ dlResp' = "ended"
  /\ UNCHANGED <<dest, remote, dlPromise, dlCause, dlReq, dlFile, dlChunks, dlUnlinked,
                 csvVars, dbVars, pipeVars>>
  /\ UNCHANGED scrapeVars

\* the connection drops after the response has started: the response emits
\* 'aborted'/'error', which nothing listens to; pipe does not end the file
OnBodyAborted ==
  /\ Alive
  /\ dlResp = "streaming"
  /\ dlResp' = "aborted"
  /\ UNCHANGED <<dest, remote, dlPromise, dlCause, dlReq, dlFile, dlChunks, dlUnlinked,
                 csvVars, dbVars, pipeVars>>
  /\ UNCHANGED scrapeVars

\* file 'finish': everything piped has been flushed; file.close(cb) is called
OnFinish ==
  /\ Alive
  /\ dlResp = "ended"
  /\ dlFile = "open"
  /\ dlFile' = "finished"
  /\ dest' = remote
  /\ UNCHANGED <<remote, dlPromise, dlCause, dlReq, dlResp, dlChunks, dlUnlinked,
                 csvVars, dbVars, pipeVars>>
  /\ UNCHANGED scrapeVars

\* the callback of file.close: err ? reject(err) : resolve()
OnClose(ok) ==
  /\ Alive
  /\ dlFile = "finished"
  /\ dlFile' = "closed"
  /\ IF ok
     THEN dlPromise' = Resolve(dlPromise) /\ UNCHANGED dlCause
     ELSE dlPromise' = Reject(dlPromise) /\ dlCause' = "close"
  /\ UNCHANGED <<dest, remote, dlReq, dlResp, dlChunks, dlUnlinked,
                 csvVars, dbVars, pipeVars>>
  /\ UNCHANGED scrapeVars

\* request 'error': fs.unlink(destination, cb); cb rejects with unlinkErr when
\* the unlink failed and with the request error otherwise
OnRequestError(unlinkOk) ==
  /\ Alive
  /\ dlReq = "sent"
  /\ unlinkOk => dest /= "absent"
  /\ dlReq' = "errored"
  /\ dlPromise' = Reject(dlPromise)
  /\ IF unlinkOk
     THEN dest' = "absent" /\ dlUnlinked' = TRUE /\ dlCause' = "transport"
     ELSE dlCause' = "unlink" /\ UNCHANGED <<dest, dlUnlinked>>
  /\ UNCHANGED <<remote, dlResp, dlFile, dlChunks, csvVars, dbVars, pipeVars>>
  /\ UNCHANGED scrapeVars

\* --------------------------------------------------------- setupDatabase
EmptyTable(cols) == [exists |-> TRUE, cols |-> cols, rows |-> <<>>]

\* a copy-paste slip: the column sets of the two tables are exchanged
ColsOfSwapped(t) == IF t = "customers" THEN OrganizationCols ELSE CustomerCols

ColsOf(t) == IF t = "customers" THEN CustomerCols ELSE OrganizationCols

\* db.schema.dropTableIfExists(t)
DropTableIfExists(tbls, t) == [tbls EXCEPT ![t] = Absent]

\* db.schema.createTable(t, ...): the table with the fixed column set, no rows
CreateTable(tbls, t) == [tbls EXCEPT ![t] = EmptyTable(ColsOf(t))]

\* createTable is rejected by the store when the table already exists
CreateRefused ==
  \/ setupPc = "createC" /\ tables["customers"].exists
  \/ setupPc = "createO" /\ tables["organizations"].exists

\* const db = knex({...}), up to the first await
StartSetup ==
  /\ handle' = "open"
  /\ opened' = opened + 1
  /\ setupPc' = "dropC"
  /\ UNCHANGED <<tables, destroyed, runs>>

\* one awaited schema call of setupDatabase; when the store rejects it the
\* exception leaves setupDatabase (the handle is not returned)
SetupStep(ok) ==
  /\ Alive
  /\ setupPc \in {"dropC", "dropO", "createC", "createO"}
  /\ IF ~ok \/ CreateRefused
     THEN /\ setupPc' = "failed"
          /\ UNCHANGED <<tables, runs>>
     ELSE CASE setupPc = "dropC" ->
                 /\ tables' = DropTableIfExists(tables, "customers")
                 /\ setupPc' = "dropO"
                 /\ UNCHANGED runs
            [] setupPc = "dropO" ->
                 /\ tables' = DropTableIfExists(tables, "organizations")
                 /\ setupPc' = "createC"
                 /\ UNCHANGED runs
            [] setupPc = "createC" ->
                 /\ tables' = CreateTable(tables, "customers")
                 /\ setupPc' = "createO"
                 /\ UNCHANGED runs
            [] setupPc = "createO" ->
                 /\ tables' = CreateTable(tables, "organizations")
                 /\ setupPc' = "returned"
                 /\ runs' = runs + 1
  /\ UNCHANGED <<handle, opened, destroyed, csvVars, dlVars, pipeVars>>
  /\ UNCHANGED scrapeVars

\* ------------------------------------------------------- processDataDump
\* extractTarGz(source, destination): how the promise ends for an archive in
\* state d. 'finish' resolves and an 'error' of tar.extract rejects; an 'error'
\* of the file read stream or of gunzip has no listener (pipe forwards none)
\* and is an uncaught exception.
ExtractOutcomes(d) ==
  CASE d = "absent" -> {"uncaught"}
    [] d = "valid" -> {"finish"}
    [] OTHER -> {"error", "uncaught"}

\* processCSV(filePath, tableName, db) up to the return of the promise
StartCSV(t) ==
  /\ promise' = [promise EXCEPT ![t] = "pending"]
  /\ stream' = [stream EXCEPT ![t] = "flowing"]
  /\ UNCHANGED <<csvLen, pos, rows, inserts>>

\* try { ... await extractTarGz(tarGzPath, extractPath)
BeginExtract ==
  /\ Alive
  /\ pc = "start"
  /\ pc' = "extract1"
  /\ started' = Append(started, "extract")
  /\ UNCHANGED <<logs, csvVars, dbVars, dlVars>>
  /\ UNCHANGED scrapeVars

\* the first extractTarGz settles
FirstExtractDone(out) ==
  /\ Alive
  /\ pc = "extract1"
  /\ out \in ExtractOutcomes(dest)
  /\ pc' = CASE out = "finish" -> "readdir"
             [] out = "error" -> "catch"
             [] OTHER -> "crashed"
  /\ UNCHANGED <<started, logs, csvVars, dbVars, dlVars>>
  /\ UNCHANGED scrapeVars

\* await fsPromises.readdir; console.log("Extracted files:", ...); downloadFile(...)
ListAndDownload(ok) ==
  /\ Alive
  /\ pc = "readdir"
  /\ IF ok
     THEN /\ logs' = Append(logs, "files")
          /\ started' = Append(started, "download")
          /\ StartDownload
          /\ pc' = "download"
     ELSE /\ pc' = "catch"
          /\ UNCHANGED <<started, logs, dlVars>>
  /\ UNCHANGED <<csvVars, dbVars>>
  /\ UNCHANGED scrapeVars

\* await downloadFile(...) continues: extractTarGz(tarGzPath, extractPath)
AfterDownload ==
  /\ Alive
  /\ pc = "download"
  /\ dlPromise \in {"resolved", "rejected"}
  /\ IF dlPromise = "resolved"
     THEN /\ pc' = "extract2"
          /\ started' = Append(started, "extract")
     ELSE /\ pc' = "catch"
          /\ UNCHANGED started
  /\ UNCHANGED <<logs, csvVars, dbVars, dlVars>>
  /\ UNCHANGED scrapeVars

\* the second extractTarGz settles; on success setupDatabase(dbPath) is called
SecondExtractDone(out) ==
  /\ Alive
  /\ pc = "extract2"
  /\ out \in ExtractOutcomes(dest)
  /\ IF out = "finish"
     THEN /\ pc' = "setup"
          /\ started' = Append(started, "schema")
          /\ StartSetup
     ELSE /\ pc' = (IF out = "error" THEN "catch" ELSE "crashed")
          /\ UNCHANGED <<started, dbVars>>
  /\ UNCHANGED <<logs, csvVars, dlVars>>
  /\ UNCHANGED scrapeVars

\* const db = await setupDatabase(dbPath); processCSV(customersCSV, "customers", db)
AfterSetup ==
  /\ Alive
  /\ pc = "setup"
  /\ setupPc \in {"returned", "failed"}
  /\ IF setupPc = "returned"
     THEN /\ pc' = "loadCustomers"
          /\ started' = Append(started, "load")
          /\ StartCSV("customers")
     ELSE /\ pc' = "catch"
          /\ UNCHANGED <<started, csvVars>>
  /\ UNCHANGED <<logs, dbVars, dlVars>>
  /\ UNCHANGED scrapeVars

\* await processCSV(customersCSV, ...) continues: processCSV(organizationsCSV, ...)
AfterCustomers ==
  /\ Alive
  /\ pc = "loadCustomers"
  /\ promise["customers"] \in {"resolved", "rejected"}
  /\ IF promise["customers"] = "resolved"
     THEN /\ pc' = "loadOrganizations"
          /\ started' = Append(started, "load")
          /\ StartCSV("organizations")
     ELSE /\ pc' = "catch"
          /\ UNCHANGED <<started, csvVars>>
  /\ UNCHANGED <<logs, dbVars, dlVars>>
  /\ UNCHANGED scrapeVars

\* await processCSV(organizationsCSV, ...) continues: console.log(success);
\* db.destroy() is called
AfterOrganizations ==
  /\ Alive
  /\ pc = "loadOrganizations"
  /\ promise["organizations"] \in {"resolved", "rejected"}
  /\ IF promise["organizations"] = "resolved"
     THEN /\ pc' = "destroying"
          /\ logs' = Append(logs, "success")
          /\ handle' = "destroyed"
          /\ destroyed' = destroyed + 1
     ELSE /\ pc' = "catch"
          /\ UNCHANGED <<logs, handle, destroyed>>
  /\ UNCHANGED <<started, tables, opened, setupPc, runs, csvVars, dlVars>>
  /\ UNCHANGED scrapeVars

\* await db.destroy() continues: the try block is left
AfterDestroy ==
  /\ Alive
  /\ pc = "destroying"
  /\ pc' = "done"
  /\ UNCHANGED <<started, logs, csvVars, dbVars, dlVars>>
  /\ UNCHANGED scrapeVars

\* catch (error) { console.error("Error processing data dump:", error) }
Catch ==
  /\ Alive
  /\ pc = "catch"
  /\ logs' = Append(logs, "error")
  /\ pc' = "done"
  /\ UNCHANGED <<started, csvVars, dbVars, dlVars>>
  /\ UNCHANGED scrapeVars

\* the CSVs inside the archive
PipeSizes == {0, MaxTail, BatchSize, BatchSize + MaxTail}

\* a database file left by an earlier run
StaleTables ==
  [n \in TableNames |->
     IF n \in Loads THEN [exists |-> TRUE, cols |-> ColsOf(n), rows |-> <<7>>] ELSE Absent]

Init ==
  /\ csvLen \in [Loads -> PipeSizes]
  /\ pos = [t \in Loads |-> 0]
  /\ rows = [t \in Loads |-> <<>>]
  /\ stream = [t \in Loads |-> "idle"]
  /\ promise = [t \in Loads |-> "none"]
  /\ inserts = <<>>
  /\ tables \in {[n \in TableNames |-> Absent], StaleTables}
  /\ handle = "none"
  /\ opened = 0
  /\ destroyed = 0
  /\ setupPc = "idle"
  /\ runs = 0
  /\ dest \in {"absent", "valid", "corrupt"}
  /\ remote \in {"valid", "corrupt"}
  /\ dlPromise = "none"
  /\ dlCause = "none"
  /\ dlReq = "none"
  /\ dlResp = "none"
  /\ dlFile = "none"
  /\ dlChunks = 0
  /\ dlUnlinked = FALSE
  /\ pc = "start"
  /\ started = <<>>
  /\ logs = <<>>
  /\ web = <<>>
  /\ inputCsv = <<>>
  /\ companies = <<>>
  /\ cpc = "idle"
  /\ tasks = <<>>
  /\ values = <<>>
  /\ settled = <<>>
  /\ outFile = [state |-> "absent", data |-> <<>>]
  /\ writeCalled = FALSE
  /\ errLogged = "none"

OpenFile == FileOpen
WriteStreamError == FileError
Response == \E code \in StatusCodes : OnResponse(code)
BodyChunk == OnBodyChunk
BodyEnd == OnBodyEnd
BodyAborted == OnBodyAborted
Finish == OnFinish
Close == \E ok \in BOOLEAN : OnClose(ok)
RequestError == \E unlinkOk \in BOOLEAN : OnRequestError(unlinkOk)
Extracted1 == \E out \in {"finish", "error", "uncaught"} : FirstExtractDone(out)
Extracted2 == \E out \in {"finish", "error", "uncaught"} : SecondExtractDone(out)
Listed == \E ok \in BOOLEAN : ListAndDownload(ok)
Schema == \E ok \in BOOLEAN : SetupStep(ok)
LoadData == \E t \in Loads : OnData(t)
LoadEnd == \E t \in Loads : OnEnd(t)
LoadTailDone == \E t \in Loads : AfterTail(t)
LoadStreamError == \E t \in Loads : OnStreamError(t)
LoadReadError == \E t \in Loads : OnReadError(t)

Next ==
  \/ BeginExtract
  \/ Extracted1
  \/ Listed
  \/ OpenFile
  \/ WriteStreamError
  \/ Response
  \/ BodyChunk
  \/ BodyEnd
  \/ BodyAborted
  \/ Finish
  \/ Close
  \/ RequestError
  \/ AfterDownload
  \/ Extracted2
  \/ Schema
  \/ AfterSetup
  \/ LoadData
  \/ LoadEnd
  \/ LoadTailDone
  \/ LoadStreamError
  \/ LoadReadError
  \/ QueryCompile
  \/ QueryAccepted
  \/ QueryRejected
  \/ AfterCustomers
  \/ AfterOrganizations
  \/ AfterDestroy
  \/ Catch

Spec == Init /\ [][Next]_vars

\* ------------------------------------------------- processCSV on its own
CsvSizes ==
  {n \in {0, 1, BatchSize - 1, BatchSize, BatchSize + 1, 2 * BatchSize, MaxRows} :
     n <= MaxRows}

InitCSV ==
  /\ csvLen \in [Loads -> CsvSizes]
  /\ csvLen["organizations"] = 0
  /\ pos = [t \in Loads |-> 0]
  /\ rows = [t \in Loads |-> <<>>]
  /\ stream = [t \in Loads |-> IF t = "customers" THEN "flowing" ELSE "idle"]
  /\ promise = [t \in Loads |-> IF t = "customers" THEN "pending" ELSE "none"]
  /\ inserts = <<>>
  /\ tables = [n \in TableNames |->
                 IF n = "customers" THEN [exists |-> TRUE, cols |-> CustomerCols, rows |-> <<>>]
                 ELSE IF n = "organizations"
                      THEN [exists |-> TRUE, cols |-> OrganizationCols, rows |-> <<>>]
                      ELSE Absent]
  /\ handle = "open"
  /\ opened = 1
  /\ destroyed = 0
  /\ setupPc = "returned"
  /\ runs = 1
  /\ dest = "valid"
  /\ remote = "valid"
  /\ dlPromise = "resolved"
  /\ dlCause = "none"
  /\ dlReq = "responded"
  /\ dlResp = "ended"
  /\ dlFile = "closed"
  /\ dlChunks = 0
  /\ dlUnlinked = FALSE
  /\ pc = "loadCustomers"
  /\ started = <<"extract", "download", "extract", "schema", "load">>
  /\ logs = <<"files">>
  /\ web = <<>>
  /\ inputCsv = <<>>
  /\ companies = <<>>
  /\ cpc = "idle"
  /\ tasks = <<>>
  /\ values = <<>>
  /\ settled = <<>>
  /\ outFile = [state |-> "absent", data |-> <<>>]
  /\ writeCalled = FALSE
  /\ errLogged = "none"

Data == OnData("customers")
End == OnEnd("customers")
TailDone == AfterTail("customers")
StreamError == OnStreamError("customers")
ReadError == OnReadError("customers")

NextCSV ==
  \/ Data
  \/ End
  \/ TailDone
  \/ StreamError
  \/ ReadError
  \/ QueryCompile
  \/ QueryAccepted
  \/ QueryRejected

SpecCSV == InitCSV /\ [][NextCSV]_vars

\* ---------------------------------------- setupDatabase run repeatedly
\* what a database file may hold before setupDatabase runs
PriorTable(n) ==
  { Absent,
    [exists |-> TRUE, cols |-> {"id", "name"}, rows |-> <<>>],
    [exists |-> TRUE, cols |-> (IF n \in Loads THEN ColsOf(n) ELSE {"id"}), rows |-> <<7>>] }

InitSchema ==
  /\ csvLen = [t \in Loads |-> 0]
  /\ pos = [t \in Loads |-> 0]
  /\ rows = [t \in Loads |-> <<>>]
  /\ stream = [t \in Loads |-> "idle"]
  /\ promise = [t \in Loads |-> "none"]
  /\ inserts = <<>>
  /\ tables \in [TableNames -> UNION {PriorTable(n) : n \in TableNames}]
  /\ \A n \in TableNames : tables[n] \in PriorTable(n)
  /\ handle = "open"
  /\ opened = 1
  /\ destroyed = 0
  /\ setupPc = "dropC"
  /\ runs = 0
  /\ dest = "valid"
  /\ remote = "valid"
  /\ dlPromise = "resolved"
  /\ dlCause = "none"
  /\ dlReq = "responded"
  /\ dlResp = "ended"
  /\ dlFile = "closed"
  /\ dlChunks = 0
  /\ dlUnlinked = FALSE
  /\ pc = "setup"
  /\ started = <<"extract", "download", "extract", "schema">>
  /\ logs = <<"files">>
  /\ web = <<>>
  /\ inputCsv = <<>>
  /\ companies = <<>>
  /\ cpc = "idle"
  /\ tasks = <<>>
  /\ values = <<>>
  /\ settled = <<>>
  /\ outFile = [state |-> "absent", data |-> <<>>]
  /\ writeCalled = FALSE
  /\ errLogged = "none"

\* setupDatabase is called again on the same database file
Rerun ==
  /\ setupPc \in {"returned", "failed"}
  /\ opened < MaxRuns
  /\ StartSetup
  /\ UNCHANGED <<csvVars, dlVars, pipeVars>>
  /\ UNCHANGED scrapeVars

NextSchema ==
  \/ Schema
  \/ Rerun

SpecSchema == InitSchema /\ [][NextSchema]_vars

\* ----------------------------------------- challenge-2: scrapeCompanyPage
\* String.prototype.trim on the texts that occur in the pages below
Trim(s) ==
  CASE s = " " -> ""
    [] s = " Acme " -> "Acme"
    [] s = "Ann " -> "Ann"
    [] OTHER -> s

\* parseInt(text, 10): leading blanks are skipped and the longest integer prefix
\* is read; NaN when there is none
ParseInt(s) ==
  CASE s = "12" -> [nan |-> FALSE, val |-> 12]
    [] s = " 7 people" -> [nan |-> FALSE, val |-> 7]
    [] s = "0" -> [nan |-> FALSE, val |-> 0]
    [] s = "-3" -> [nan |-> FALSE, val |-> -3]
    [] OTHER -> [nan |-> TRUE, val |-> 0]

\* a slip: the default is never substituted
OrDefaultKeep(s, d) == s

\* x || "N/A"
OrDefault(s, d) == IF s = "" THEN d ELSE s

\* parseInt(...) || 0: NaN and 0 are falsy
OrZero(r) == IF r.nan \/ r.val = 0 THEN 0 ELSE r.val

\* the text of the selected elements of the page a URL serves ("" where the
\* selection is empty)
PageAt(u) ==
  CASE u = "a" ->
         [name |-> " Acme ", founded |-> "2015", description |-> "Rockets",
          teamSize |-> "12", founders |-> <<"Ann ", " ", "Bob">>,
          jobs |-> << [title |-> "Engineer", location |-> "Paris"],
                      [title |-> "", location |-> " "],
                      [title |-> "", location |-> "Remote"] >>]
    [] u = "b" ->
         [name |-> "", founded |-> " ", description |-> "", teamSize |-> "many",
          founders |-> <<>>, jobs |-> <<>>]
    [] OTHER ->
         [name |-> "Beta", founded |-> "", description |-> "Maps",
          teamSize |-> " 7 people", founders |-> <<"Cy">>,
          jobs |-> << [title |-> "Designer", location |-> ""] >>]

\* the body of requestHandler: the profile passed to resolve()
Extract(page) ==
  LET founderNames == [k \in 1..Len(page.founders) |-> Trim(page.founders[k])]
      jobTexts == [k \in 1..Len(page.jobs) |->
                     [title |-> Trim(page.jobs[k].title),
                      location |-> Trim(page.jobs[k].location)]]
  IN [name |-> OrDefault(Trim(page.name), "N/A"),
      founded |-> OrDefault(Trim(page.founded), "N/A"),
      description |-> OrDefault(Trim(page.description), "N/A"),
      teamSize |-> OrZero(ParseInt(page.teamSize)),
      founders |-> [k \in 1..Len(SelectSeq(founderNames, LAMBDA f : f /= "")) |->
                      [name |-> SelectSeq(founderNames, LAMBDA f : f /= "")[k]]],
      jobs |-> SelectSeq(jobTexts, LAMBDA j : j.title /= "" \/ j.location /= "")]

\* --------------------------------------- challenge-2: processCompanyList
Running == cpc /= "crashed"

NoValue == [unset |-> TRUE]

\* a slip: results are gathered in the order the fetches complete
CollectInCompletionOrder(vals, i, v) ==
  LET free == {k \in 1..Len(vals) : vals[k] = NoValue}
      k == CHOOSE m \in free : \A n \in free : m <= n
  IN [vals EXCEPT ![k] = v]

\* Promise.all stores the value of the i-th promise at index i
Collect(vals, i, v) == [vals EXCEPT ![i] = v]

\* a slip: the join waits for every promise and ignores rejections
AllSettledOutcome(ts) ==
  IF \A i \in 1..Len(ts) : ts[i] \in {"resolved", "rejected"} THEN "resolved" ELSE "pending"

\* Promise.all(companyDataPromises): rejected as soon as one promise is
\* rejected, resolved when every promise is resolved
AllOutcome(ts) ==
  IF \E i \in 1..Len(ts) : ts[i] = "rejected" THEN "rejected"
  ELSE IF \A i \in 1..Len(ts) : ts[i] = "resolved" THEN "resolved"
  ELSE "pending"

\* parseCSV .on("data", row => companies.push({name: row["Company Name"], url: row["YC URL"]}))
OnCompanyRow ==
  /\ Running
  /\ cpc = "parsing"
  /\ Len(companies) < Len(inputCsv)
  /\ LET row == inputCsv[Len(companies) + 1] IN
       companies' = Append(companies, [name |-> row["Company Name"], url |-> row["YC URL"]])
  /\ UNCHANGED <<web, inputCsv, cpc, tasks, values, outFile, writeCalled, errLogged>>
  /\ UNCHANGED <<settled, csvVars, dbVars, dlVars, pipeVars>>

\* parseCSV .on("end", () => resolve(companies)); processCompanyList continues:
\* companies.map(company => scrapeCompanyPage(company.url)); Promise.all(...)
OnCompaniesEnd ==
  /\ Running
  /\ cpc = "parsing"
  /\ Len(companies) = Len(inputCsv)
  /\ tasks' = [i \in 1..Len(companies) |-> "running"]
  /\ values' = [i \in 1..Len(companies) |-> NoValue]
  /\ cpc' = "awaitAll"
  /\ UNCHANGED <<web, inputCsv, companies, outFile, writeCalled, errLogged>>
  /\ UNCHANGED <<settled, csvVars, dbVars, dlVars, pipeVars>>

\* parseCSV .on("error", error => reject(error)): processCompanyList rejects
\* and .catch(console.error) logs
OnCompaniesError ==
  /\ Running
  /\ cpc = "parsing"
  /\ cpc' = "rejected"
  /\ errLogged' = "parse"
  /\ UNCHANGED <<web, inputCsv, companies, tasks, values, outFile, writeCalled>>
  /\ UNCHANGED <<settled, csvVars, dbVars, dlVars, pipeVars>>

\* fs.createReadStream(filePath) emits 'error': no listener on the file stream
OnCompaniesReadError ==
  /\ Running
  /\ cpc = "parsing"
  /\ companies = <<>>
  /\ cpc' = "crashed"
  /\ UNCHANGED <<web, inputCsv, companies, tasks, values, outFile, writeCalled, errLogged>>
  /\ UNCHANGED <<settled, csvVars, dbVars, dlVars, pipeVars>>

\* requestHandler runs for the page of company i: resolve({...})
TaskResolved(i) ==
  /\ Running
  /\ tasks[i] = "running"
  /\ settled' = Append(settled, i)
  /\ tasks' = [tasks EXCEPT ![i] = "resolved"]
  /\ values' = Collect(values, i, Extract(web[companies[i].url]))
  /\ UNCHANGED <<web, inputCsv, companies, cpc, outFile, writeCalled, errLogged>>
  /\ UNCHANGED <<csvVars, dbVars, dlVars, pipeVars>>

\* reject(error) in the handler's catch, or crawler.run([url]).catch(reject)
TaskRejected(i) ==
  /\ Running
  /\ tasks[i] = "running"
  /\ settled' = Append(settled, i)
  /\ tasks' = [tasks EXCEPT ![i] = "rejected"]
  /\ UNCHANGED <<web, inputCsv, companies, cpc, values, outFile, writeCalled, errLogged>>
  /\ UNCHANGED <<csvVars, dbVars, dlVars, pipeVars>>

\* crawler.run([url]) resolves although requestHandler never ran (the request
\* failed): neither resolve nor reject is ever called
TaskHung(i) ==
  /\ Running
  /\ tasks[i] = "running"
  /\ tasks' = [tasks EXCEPT ![i] = "hung"]
  /\ UNCHANGED <<web, inputCsv, companies, cpc, values, outFile, writeCalled, errLogged>>
  /\ UNCHANGED <<settled, csvVars, dbVars, dlVars, pipeVars>>

\* await Promise.all(...) continues: writeToFile(companyData, "out/scraped.json")
\* is called, or processCompanyList rejects
AfterAll ==
  /\ Running
  /\ cpc = "awaitAll"
  /\ AllOutcome(tasks) /= "pending"
  /\ IF AllOutcome(tasks) = "resolved"
     THEN /\ cpc' = "ensureDir"
          /\ writeCalled' = TRUE
          /\ UNCHANGED errLogged
     ELSE /\ cpc' = "rejected"
          /\ errLogged' = "fetch"
          /\ UNCHANGED writeCalled
  /\ UNCHANGED <<web, inputCsv, companies, tasks, values, outFile>>
  /\ UNCHANGED <<settled, csvVars, dbVars, dlVars, pipeVars>>

\* await fsExtra.ensureDir("out")
EnsureDir(ok) ==
  /\ Running
  /\ cpc = "ensureDir"
  /\ IF ok
     THEN cpc' = "writeJson" /\ UNCHANGED errLogged
     ELSE cpc' = "rejected" /\ errLogged' = "write"
  /\ UNCHANGED <<web, inputCsv, companies, tasks, values, outFile, writeCalled>>
  /\ UNCHANGED <<settled, csvVars, dbVars, dlVars, pipeVars>>

\* await fsExtra.writeJson(outputPath, data, {spaces: 2}); a failed write may
\* leave the file as it was or truncated
WriteJson(ok, truncated) ==
  /\ Running
  /\ cpc = "writeJson"
  /\ IF ok
     THEN /\ outFile' = [state |-> "written", data |-> values]
          /\ cpc' = "done"
          /\ UNCHANGED errLogged
     ELSE /\ outFile' = IF truncated THEN [state |-> "truncated", data |-> <<>>] ELSE outFile
          /\ cpc' = "rejected"
          /\ errLogged' = "write"
  /\ UNCHANGED <<web, inputCsv, companies, tasks, values, writeCalled>>
  /\ UNCHANGED <<settled, csvVars, dbVars, dlVars, pipeVars>>

Urls == {"a", "b", "c"}

CompanyRows == {[h \in {"Company Name", "YC URL"} |-> u] : u \in Urls}

CsvInputs == UNION {[1..n -> CompanyRows] : n \in 0..MaxCompanies}

InitScrape ==
  /\ csvLen = [t \in Loads |-> 0]
  /\ pos = [t \in Loads |-> 0]
  /\ rows = [t \in Loads |-> <<>>]
  /\ stream = [t \in Loads |-> "idle"]
  /\ promise = [t \in Loads |-> "none"]
  /\ inserts = <<>>
  /\ tables = [n \in TableNames |-> Absent]
  /\ handle = "none"
  /\ opened = 0
  /\ destroyed = 0
  /\ setupPc = "idle"
  /\ runs = 0
  /\ dest = "absent"
  /\ remote = "valid"
  /\ dlPromise = "none"
  /\ dlCause = "none"
  /\ dlReq = "none"
  /\ dlResp = "none"
  /\ dlFile = "none"
  /\ dlChunks = 0
  /\ dlUnlinked = FALSE
  /\ pc = "start"
  /\ started = <<>>
  /\ logs = <<>>
  /\ web = [u \in Urls |-> PageAt(u)]
  /\ inputCsv \in CsvInputs
  /\ companies = <<>>
  /\ cpc = "parsing"
  /\ tasks = <<>>
  /\ values = <<>>
  /\ settled = <<>>
  /\ outFile \in {[state |-> "absent", data |-> <<>>], [state |-> "stale", data |-> <<>>]}
  /\ writeCalled = FALSE
  /\ errLogged = "none"

Fetched == \E i \in 1..Len(tasks) : TaskResolved(i)
FetchFailed == \E i \in 1..Len(tasks) : TaskRejected(i)
FetchNeverHandled == \E i \in 1..Len(tasks) : TaskHung(i)
DirEnsured == \E ok \in BOOLEAN : EnsureDir(ok)
JsonWritten == \E ok \in BOOLEAN, truncated \in BOOLEAN : WriteJson(ok, truncated)

NextScrape ==
  \/ OnCompanyRow
  \/ OnCompaniesEnd
  \/ OnCompaniesError
  \/ OnCompaniesReadError
  \/ Fetched
  \/ FetchFailed
  \/ FetchNeverHandled
  \/ AfterAll
  \/ DirEnsured
  \/ JsonWritten

SpecScrape == InitScrape /\ [][NextScrape]_vars

\* ------------------------------- requestHandler on one page of any shape
FounderTexts == {" ", "Ann "}

JobBlocks == [title : {"", "Engineer"}, location : {" ", "Paris"}]

\* the pages requestHandler may be handed: every selected element present,
\* blank or missing ("" is the text of an empty selection)
Pages ==
  [name : {"", " ", " Acme "},
   founded : {"", "2015"},
   description : {" ", "Rockets"},
   teamSize : {"", "12", " 7 people", "0", "many", "-3"},
   founders : UNION {[1..n -> FounderTexts] : n \in 0..MaxFounders},
   jobs : UNION {[1..n -> JobBlocks] : n \in 0..MaxJobs}]

InitHandler ==
  /\ csvLen = [t \in Loads |-> 0]
  /\ pos = [t \in Loads |-> 0]
  /\ rows = [t \in Loads |-> <<>>]
  /\ stream = [t \in Loads |-> "idle"]
  /\ promise = [t \in Loads |-> "none"]
  /\ inserts = <<>>
  /\ tables = [n \in TableNames |-> Absent]
  /\ handle = "none"
  /\ opened = 0
  /\ destroyed = 0
  /\ setupPc = "idle"
  /\ runs = 0
  /\ dest = "absent"
  /\ remote = "valid"
  /\ dlPromise = "none"
  /\ dlCause = "none"
  /\ dlReq = "none"
  /\ dlResp = "none"
  /\ dlFile = "none"
  /\ dlChunks = 0
  /\ dlUnlinked = FALSE
  /\ pc = "start"
  /\ started = <<>>
  /\ logs = <<>>
  /\ web \in [{"a"} -> Pages]
  /\ inputCsv = << [h \in {"Company Name", "YC URL"} |-> "a"] >>
  /\ companies = <<>>
  /\ cpc = "parsing"
  /\ tasks = <<>>
  /\ values = <<>>
  /\ settled = <<>>
  /\ outFile = [state |-> "absent", data |-> <<>>]
  /\ writeCalled = FALSE
  /\ errLogged = "none"

NextHandler ==
  \/ OnCompanyRow
  \/ OnCompaniesEnd
  \/ Fetched
  \/ FetchFailed

SpecHandler == InitHandler /\ [][NextHandler]_vars

\* ------------------------------------------------------ claims: processCSV
\* the inserts a processCSV call has issued, in submission order
IssuedBy(t) == SelectSeq(inserts, LAMBDA q : q.table = t)

RECURSIVE ConcatArgs(_)
ConcatArgs(qs) == IF qs = <<>> THEN <<>> ELSE qs[1].arg \o ConcatArgs(Tail(qs))

Count(s, x) == Cardinality({k \in 1..Len(s) : s[k] = x})

EndHandled(t) == stream[t] \in {"awaitTail", "ended"}

AllSettledAccepted(t) ==
  \A i \in 1..Len(inserts) : inserts[i].table = t => inserts[i].state = "accepted"

\* C1: once the 'end' handler has finished and every insert the call issued has
\* been accepted, the table (empty at the start) holds each of the N CSV rows
\* exactly once, with its original values.
C1_EveryRowLoadedOnce ==
  (stream["customers"] = "ended" /\ AllSettledAccepted("customers"))
    => /\ Len(tables["customers"].rows) = csvLen["customers"]
       /\ \A n \in 1..csvLen["customers"] :
            Count(tables["customers"].rows, CsvRow("customers", n)) = 1

\* C2: every insert is called with a non-empty array; the non-final calls carry
\* exactly BatchSize rows; the calls made so far, followed by the rows still
\* buffered, are the rows read so far in file order; after 'end' there are
\* floor(N/BatchSize) full calls followed by one call of N mod BatchSize rows
\* iff that remainder is positive.
C2_BatchShape ==
  LET t == "customers"
      qs == IssuedBy(t)
      n == csvLen[t]
      full == n \div BatchSize
      rest == n % BatchSize
  IN /\ \A k \in 1..Len(qs) :
          /\ Len(qs[k].arg) > 0
          /\ ~qs[k].tail => Len(qs[k].arg) = BatchSize
          /\ qs[k].tail => k = Len(qs)
     /\ ConcatArgs(qs) \o rows[t] = CsvFile(t, pos[t]) \/ EndHandled(t)
     /\ EndHandled(t) =>
          /\ Len(qs) = full + (IF rest > 0 THEN 1 ELSE 0)
          /\ \A k \in 1..full : ~qs[k].tail /\ Len(qs[k].arg) = BatchSize
          /\ rest > 0 => qs[Len(qs)].tail /\ Len(qs[Len(qs)].arg) = rest
          /\ ConcatArgs(qs) = CsvFile(t, n)

\* C2 witness: a file of two full batches and a tail has been read to its end
C2_Witness ==
  /\ stream["customers"] = "ended"
  /\ csvLen["customers"] > 2 * BatchSize
  /\ Len(IssuedBy("customers")) = 3

\* C3: whenever an insert issued by the call has been rejected by the store, the
\* promise returned by processCSV is rejected.
C3_RejectedInsertRejectsPromise ==
  (\E i \in 1..Len(inserts) :
      inserts[i].table = "customers" /\ inserts[i].state = "rejected")
    => promise["customers"] = "rejected"

\* ------------------------------------------------- claims: processDataDump
Pending(q) == q.state \in {"issued", "compiled"}

IsPrefix(a, b) == Len(a) <= Len(b) /\ \A k \in 1..Len(a) : a[k] = b[k]

\* C4: the stages start in the order download, extract, schema, load (customers),
\* load (organizations), and an extraction has started only if the download has
\* completed successfully.
C4_StagesInOrder ==
  /\ IsPrefix(started, <<"download", "extract", "schema", "load", "load">>)
  /\ (\E k \in 1..Len(started) : started[k] = "extract") => dlPromise = "resolved"

\* C5: once db.destroy has been called no insert of either load is unsettled,
\* and no customers insert is unsettled once an organizations insert is issued.
C5_DestroyAfterLoads ==
  /\ destroyed > 0 => \A i \in 1..Len(inserts) : ~Pending(inserts[i])
  /\ (\E j \in 1..Len(inserts) : inserts[j].table = "organizations")
       => \A i \in 1..Len(inserts) :
            inserts[i].table = "customers" => ~Pending(inserts[i])

\* C6: when a run that opened the handle has ended, the handle has been closed
\* exactly once.
C6_ClosedExactlyOnce ==
  (pc = "done" /\ opened = 1) => destroyed = 1

\* C7 as stated: when the download has failed, the destination was deleted iff
\* the failure is a request 'error'; on a non-200 status it is left in place.
C7_DeletedIffTransport ==
  dlPromise = "rejected" =>
    /\ dlUnlinked <=> dlReq = "errored"
    /\ dlResp = "bad" => ~dlUnlinked /\ (dlFile = "open" => dest /= "absent")

\* C7 amended: when the download has failed, the destination was removed iff the
\* failure is a request 'error' whose unlink succeeded (the promise then carries
\* the request error); when the unlink fails the promise carries the unlink
\* error and nothing was removed; on a non-200 status the promise is rejected
\* with the status error and the file created by the write stream is in place.
C7_DeletedIffUnlinkSucceeded ==
  dlPromise = "rejected" =>
    /\ dlUnlinked <=> dlCause = "transport"
    /\ dlReq = "errored" <=> dlCause \in {"transport", "unlink"}
    /\ dlResp = "bad" <=> dlCause = "status"
    /\ dlResp = "bad" => ~dlUnlinked /\ (dlFile = "open" => dest = "partial")

\* C7 witness: a request error whose unlink removed the destination
C7_Witness ==
  dlPromise = "rejected" /\ dlReq = "errored" /\ dlUnlinked /\ dest = "absent"

\* -------------------------------------------------- claims: setupDatabase
SchemaReady ==
  /\ tables["customers"] = EmptyTable(CustomerCols)
  /\ tables["organizations"] = EmptyTable(OrganizationCols)

\* C8 as stated: after one or more runs exactly the two tables exist, with the
\* fixed columns and no rows.
C8_ExactlyTwoTables ==
  (setupPc = "returned" /\ runs >= 1) =>
    /\ SchemaReady
    /\ {n \in TableNames : tables[n].exists} = Loads

\* C8 amended: after one or more runs, from any prior state, customers and
\* organizations exist with the fixed columns and no rows, whatever the number
\* of runs, and no step of setupDatabase changes any other table.
C8_SchemaIdempotent ==
  /\ []((setupPc = "returned" /\ runs >= 1) => SchemaReady)
  /\ [][tables'["legacy"] = tables["legacy"]]_vars

\* C8 witness: a second run over tables that held data has returned
C8_Witness ==
  setupPc = "returned" /\ runs = 2 /\ SchemaReady /\ tables["legacy"].rows /= <<>>

\* ---------------------------------------- claims: processCompanyList
\* the profile the page of CSV row i yields
ProfileOfRow(i) == Extract(web[inputCsv[i]["YC URL"]])

\* C9: when processCompanyList has succeeded, the array written has one element
\* per CSV data row, and element i is the profile scraped from the URL of row i.
C9_OutputAlignedWithInput ==
  cpc = "done" =>
    /\ outFile.state = "written"
    /\ Len(outFile.data) = Len(inputCsv)
    /\ \A i \in 1..Len(inputCsv) : outFile.data[i] = ProfileOfRow(i)

\* C9 witness: a run over three rows with different pages, whose fetches
\* completed in the reverse of the file order, has written its output
C9_Witness ==
  /\ cpc = "done"
  /\ Len(inputCsv) = 3
  /\ settled = <<3, 2, 1>>
  /\ ProfileOfRow(1) /= ProfileOfRow(2)
  /\ ProfileOfRow(2) /= ProfileOfRow(3)
  /\ ProfileOfRow(1) /= ProfileOfRow(3)

\* C10: once a fetch has been rejected, or parseCSV has been rejected,
\* writeToFile has not been called and is never called: the output file is as
\* it was before the run, and processCompanyList does not complete.
C10_NoWriteOnFailure ==
  ((\E i \in 1..Len(tasks) : tasks[i] = "rejected") \/ errLogged = "parse") =>
    /\ ~writeCalled
    /\ outFile.state \in {"absent", "stale"}
    /\ cpc \in {"awaitAll", "rejected"}

\* C10 witness: the run was rejected for one failed fetch while another fetch
\* had succeeded and a third was still in flight
C10_Witness ==
  /\ cpc = "rejected"
  /\ \E i, j, k \in 1..Len(tasks) :
       tasks[i] = "rejected" /\ tasks[j] = "resolved" /\ tasks[k] = "running"

\* ------------------------------------------- claims: scrapeCompanyPage
\* C11: every scrapeCompanyPage promise is settled once its crawler run is
\* over, so that processCompanyList, while it awaits Promise.all, is never left
\* with nothing that could still settle the join.
C11_EveryFetchSettles ==
  /\ \A i \in 1..Len(tasks) : tasks[i] /= "hung"
  /\ (cpc = "awaitAll" /\ \A i \in 1..Len(tasks) : tasks[i] /= "running")
       => AllOutcome(tasks) /= "pending"

\* texts that are empty or hold only white space
Blank(s) == s \in {"", " "}

\* texts without a digit
NonNumeric(s) == s \in {"", " ", "many"}

\* b is a with the white space around it removed
Stripped(a, b) ==
  \/ ~Blank(a) /\ a = b
  \/ a = " Acme " /\ b = "Acme"
  \/ a = "Ann " /\ b = "Ann"

\* positions of the blocks of a page that the claim says are listed
ListedFounders(p) == {k \in 1..Len(p.founders) : ~Blank(p.founders[k])}
ListedJobs(p) ==
  {k \in 1..Len(p.jobs) : ~Blank(p.jobs[k].title) \/ ~Blank(p.jobs[k].location)}

\* the n-th smallest element of a set of positions
RECURSIVE Nth(_, _)
Nth(S, n) ==
  LET m == CHOOSE x \in S : \A y \in S : x <= y
  IN IF n = 1 THEN m ELSE Nth(S \ {m}, n - 1)

\* C12: the profile requestHandler resolves with has all six fields; name,
\* founded and description are "N/A" exactly when the element is missing or
\* blank (and the stripped text otherwise); a missing or non-numeric team size
\* is 0; founders holds exactly the founder blocks with a non-blank name and
\* jobs exactly the job blocks with a non-blank title or location, both in page
\* order.
C12_ProfileComplete ==
  (Len(tasks) = 1 /\ tasks[1] = "resolved") =>
    LET p == web[companies[1].url]
        v == values[1]
    IN /\ DOMAIN v = {"name", "founded", "description", "teamSize", "founders", "jobs"}
       /\ IF Blank(p.name) THEN v.name = "N/A" ELSE Stripped(p.name, v.name)
       /\ IF Blank(p.founded) THEN v.founded = "N/A" ELSE Stripped(p.founded, v.founded)
       /\ IF Blank(p.description) THEN v.description = "N/A"
          ELSE Stripped(p.description, v.description)
       /\ v.teamSize \in Int
       /\ NonNumeric(p.teamSize) => v.teamSize = 0
       /\ Len(v.founders) = Cardinality(ListedFounders(p))
       /\ \A k \in 1..Len(v.founders) :
            Stripped(p.founders[Nth(ListedFounders(p), k)], v.founders[k].name)
       /\ Len(v.jobs) = Cardinality(ListedJobs(p))
       /\ \A k \in 1..Len(v.jobs) :
            LET b == p.jobs[Nth(ListedJobs(p), k)] IN
              /\ IF Blank(b.title) THEN v.jobs[k].title = ""
                 ELSE Stripped(b.title, v.jobs[k].title)
              /\ IF Blank(b.location) THEN v.jobs[k].location = ""
                 ELSE Stripped(b.location, v.jobs[k].location)

\* C12 witness: the handler has resolved for a page on which every element is
\* missing or blank
C12_Witness ==
  /\ Len(tasks) = 1
  /\ tasks[1] = "resolved"
  /\ web["a"] = [name |-> "", founded |-> "", description |-> " ", teamSize |-> "",
                 founders |-> <<" ">>, jobs |-> << [title |-> "", location |-> " "] >>]
  /\ values[1] = [name |-> "N/A", founded |-> "N/A", description |-> "N/A",
                  teamSize |-> 0, founders |-> <<>>, jobs |-> <<>>]

\* ------------------------------------------ claims: failures of the dump
\* a stage of processDataDump has failed: its promise is rejected, or a stream
\* of the stage has raised an error
StageFailed ==
  \/ pc \in {"catch", "crashed"}
  \/ pc = "done" /\ Len(logs) > 0 /\ logs[Len(logs)] = "error"

\* C13: when a stage of processDataDump has failed, the run is on its way to the
\* catch block or has left it with the error logged: the process goes on (the
\* promise resolves), the success message is not logged, and no stage beyond
\* the failed one has been started.
C13_FailureLoggedAndSwallowed ==
  StageFailed =>
    /\ pc /= "crashed"
    /\ \A k \in 1..Len(logs) : logs[k] /= "success"
    /\ pc = "done" => logs[Len(logs)] = "error"
    /\ handle = "none" => \A k \in 1..Len(started) : started[k] /= "load"

\* C14: processCSV is never resolved while its tail insert is unsettled: the
\* promise is resolved only if the tail insert has been accepted, and once the
\* tail insert has been rejected the promise is rejected and stays so after the
\* resolve() that follows.
C14_ResolveWaitsForTail ==
  \A i \in 1..Len(inserts) :
    (inserts[i].table = "customers" /\ inserts[i].tail) =>
      /\ promise["customers"] = "resolved" => inserts[i].state = "accepted"
      /\ inserts[i].state = "rejected" => promise["customers"] = "rejected"
      /\ stream["customers"] = "ended" => ~Pending(inserts[i])

\* C14 witness: the tail insert was rejected, resolve() has run, and the promise
\* is rejected
C14_Witness ==
  /\ stream["customers"] = "ended"
  /\ promise["customers"] = "rejected"
  /\ \E i \in 1..Len(inserts) :
       /\ inserts[i].table = "customers"
       /\ inserts[i].tail
       /\ inserts[i].state = "rejected"
       /\ \A j \in 1..Len(inserts) : j /= i => inserts[j].state = "accepted"

\* C15: once processDataDump has logged the failure of a table load, no insert
\* of that load is pending and the load issues no further insert (its stream
\* has no row left to deliver or to flush).
C15_NoChangeAfterLoadFailure ==
  \A t \in Loads :
    (pc = "done" /\ promise[t] = "rejected" /\ Len(logs) > 0 /\ logs[Len(logs)] = "error") =>
      /\ \A i \in 1..Len(inserts) : inserts[i].table = t => ~Pending(inserts[i])
      /\ stream[t] = "flowing" => (pos[t] = csvLen[t] /\ ~HasTail(rows[t]))

\* C16: the promise of downloadFile does not stay pending where nothing is left
\* to settle it: it is rejected once the response body has been cut off, and
\* it is settled when a failure of the destination write stream has ended the
\* process.
C16_DownloadSettles ==
  /\ dlResp = "aborted" => dlPromise = "rejected"
  /\ pc = "crashed" => dlPromise /= "pending"

====
